---- MODULE Spec2Model ----
(***************************************************************************)
(* A model of the stamp crate (src/lib.rs): Char, Stamp::new,              *)
(* Stamp::from_rectangle, Stamp::rows, Stamp::render, Stamp::layer and     *)
(* to_rectangle.                                                           *)
(*                                                                         *)
(* A text is a sequence of code points.  The alphabet holds one code       *)
(* point of every class the code treats differently:                       *)
(*   "a", " "  ordinary width-1 characters (" " is the padding character), *)
(*   "~"       a combining mark (U+0305): width 0, Grapheme_Extend,        *)
(*   "W"       a wide character (CJK): width 2,                            *)
(*   "P"       a width-1 letter of Grapheme_Cluster_Break=Prepend          *)
(*             (such as U+0D4E),                                           *)
(*   NL        the newline the code splits on.                             *)
(* "x" is one more ordinary width-1 character, used by overlays.           *)
(***************************************************************************)
EXTENDS Integers, Sequences, FiniteSets, TLC

VARIABLES input, call, prev, base, over

vars == <<input, call, prev, base, over>>

\* Longest input text.
MaxLen == 4

\* Largest anchor coordinate passed to layer.
MaxCoord == 2

NL == "NL"

Alphabet == {"a", " ", "~", "W", "P", NL}

Texts == UNION {[1..n -> Alphabet] : n \in 0..MaxLen}

\* Texts of the stamps the caller goes on to compose with layer: one row,
\* a combining mark, a row Stamp::new has to pad, and two full rows.
BaseTexts ==
    { <<"a", " ", "a">>,
      <<"a", "~", NL, " ">>,
      <<"a", "P", NL, "a">>,
      <<"a", " ", NL, " ", "a">> }

\* Texts the overlay stamp is built from (Stamp::new pads the second one).
OverlayTexts == { <<"x">>, <<"x", "x", NL, "x">> }

Min(a, b) == IF a <= b THEN a ELSE b

Max(S) == CHOOSE m \in S : \A k \in S : k <= m

(***************************************************************************)
(* unicode_width and unicode_segmentation, as the code uses them.          *)
(***************************************************************************)

\* Width of one code point.
CharWidth(c) ==
    CASE c = "~" -> 0
      [] c = NL  -> 0
      [] c = "W" -> 2
      [] OTHER   -> 1

\* UnicodeWidthStr::width: the sum of the code points' widths.
RECURSIVE Width(_)
Width(s) == IF s = <<>> THEN 0 ELSE CharWidth(Head(s)) + Width(Tail(s))

\* No cluster boundary between p and c: GB9 (x Extend), GB9b (Prepend x).
NoBreak(p, c) == c = "~" \/ p = "P"

\* row.graphemes(true): the extended grapheme clusters of a row, in order.
RECURSIVE Graphemes(_)
Graphemes(row) ==
    IF row = <<>> THEN <<>>
    ELSE LET e == CHOOSE k \in 1..Len(row) :
                    /\ \A j \in 1..(k - 1) : NoBreak(row[j], row[j + 1])
                    /\ (k = Len(row) \/ ~NoBreak(row[k], row[k + 1]))
         IN  <<SubSeq(row, 1, e)>> \o Graphemes(SubSeq(row, e + 1, Len(row)))

\* s.split('\n'): at least one piece, empty pieces kept.
RECURSIVE Split(_)
Split(s) ==
    IF \A i \in DOMAIN s : s[i] # NL THEN <<s>>
    ELSE LET i == CHOOSE k \in DOMAIN s :
                    s[k] = NL /\ \A j \in 1..(k - 1) : s[j] # NL
         IN  <<SubSeq(s, 1, i - 1)>> \o Split(SubSeq(s, i + 1, Len(s)))

\* strings.join(""): concatenation of a sequence of texts.
RECURSIVE Concat(_)
Concat(ss) == IF ss = <<>> THEN <<>> ELSE Head(ss) \o Concat(Tail(ss))

\* rows.join("\n"), and the loop of to_rectangle that puts "\n" after every
\* row but the last.
RECURSIVE JoinNL(_)
JoinNL(ss) ==
    IF ss = <<>> THEN <<>>
    ELSE IF Len(ss) = 1 THEN ss[1]
    ELSE ss[1] \o <<NL>> \o JoinNL(Tail(ss))

(***************************************************************************)
(* Result<T, ()>.  Every Err carries the unit value (); `line` is the      *)
(* source line of the return statement, kept for the analysis only: it is  *)
(* no part of the value the caller receives.                               *)
(***************************************************************************)

Unit == <<>>

Ok(v) == [kind |-> "Ok", val |-> v]

Err(line) == [kind |-> "Err", err |-> Unit, line |-> line]

\* An index out of range: the process panics, no Result is returned.
Panic(line) == [kind |-> "Panic", line |-> line]

(***************************************************************************)
(* Char                                                                    *)
(***************************************************************************)

\* Char::new checking only for an empty width (wide clusters pass).
CharNewAcceptsWide(s) ==
    LET width == Width(s)
    IN  IF width = 0 THEN Err(17) ELSE Ok(s)

\* Char::new checking only for too wide a cluster (zero-width ones pass).
CharNewAcceptsZero(s) ==
    LET width == Width(s)
    IN  IF width > 1 THEN Err(17) ELSE Ok(s)

CharNew(s) ==
    LET width == Width(s)
    IN  IF width # 1 THEN Err(17) ELSE Ok(s)

CharToString(c) == c

(***************************************************************************)
(* Stamp                                                                   *)
(***************************************************************************)

\* from_rectangle without the comparison of every row's width with the first.
FromRectangleNoRowCheck(s) ==
    LET rows   == Split(s)
        height == Len(rows)
        width  == Width(rows[1])
        chars  == [i \in 1..height |->
                     LET gs == Graphemes(rows[i])
                     IN  [k \in 1..Len(gs) |-> CharNew(gs[k])]]
    IN  IF height = 0 THEN Err(49)
        ELSE IF width = 0 THEN Err(56)
        ELSE IF \E i \in 1..height : \E k \in DOMAIN chars[i] :
                    chars[i][k].kind = "Err"
             THEN Err(70)
        ELSE Ok([data   |-> [i \in 1..height |->
                               [k \in DOMAIN chars[i] |-> chars[i][k].val]],
                 height |-> height,
                 width  |-> width])

FromRectangle(s) ==
    LET rows   == Split(s)
        height == Len(rows)
        width  == Width(rows[1])
        chars  == [i \in 1..height |->
                     LET gs == Graphemes(rows[i])
                     IN  [k \in 1..Len(gs) |-> CharNew(gs[k])]]
    IN  IF height = 0 THEN Err(49)
        ELSE IF width = 0 THEN Err(56)
        ELSE IF \E i \in 1..height : Width(rows[i]) # width THEN Err(61)
        ELSE IF \E i \in 1..height : \E k \in DOMAIN chars[i] :
                    chars[i][k].kind = "Err"
             THEN Err(70)
        ELSE Ok([data   |-> [i \in 1..height |->
                               [k \in DOMAIN chars[i] |-> chars[i][k].val]],
                 height |-> height,
                 width  |-> width])

\* to_rectangle measuring rows by their number of code points.
ToRectangleByLen(s) ==
    IF s = <<>> THEN Err(131)
    ELSE LET rows      == Split(s)
             max_width == Max({Len(rows[i]) : i \in DOMAIN rows})
             padded    == [i \in DOMAIN rows |->
                             rows[i] \o [k \in 1..(max_width - Len(rows[i])) |-> " "]]
         IN  Ok(JoinNL(padded))

ToRectangle(s) ==
    IF s = <<>> THEN Err(131)
    ELSE LET rows      == Split(s)
             max_width == Max({Width(rows[i]) : i \in DOMAIN rows})
             padded    == [i \in DOMAIN rows |->
                             rows[i] \o [k \in 1..(max_width - Width(rows[i])) |-> " "]]
         IN  Ok(JoinNL(padded))

\* Stamp::new rejecting the empty text but passing the text on unpadded.
StampNewNoPad(s) ==
    LET t == ToRectangle(s)
    IN  IF t.kind = "Err" THEN Err(t.line) ELSE FromRectangle(s)

StampNew(s) ==
    LET t == ToRectangle(s)
    IN  IF t.kind = "Err" THEN Err(t.line) ELSE FromRectangle(t.val)

Rows(st) ==
    [i \in DOMAIN st.data |->
        Concat([k \in DOMAIN st.data[i] |-> CharToString(st.data[i][k])])]

\* render joining the rows with nothing between them.
RenderNoSeparator(st) == Concat(Rows(st))

Render(st) == JoinNL(Rows(st))

Clone(st) == st

\* The column limit without the clip to the base's width.
MaxColIndexUnclipped(self, other, col) == col + other.width

MaxColIndex(self, other, col) == Min(col + other.width, self.width)

\* The row limit forgetting the anchor's row.
MaxRowIndexNoOffset(self, other, row) == Min(other.height, self.height)

MaxRowIndex(self, other, row) == Min(row + other.height, self.height)

\* The zero-based positions <<r, c>> the copy loop of layer visits.
Visited(self, other, col, row) ==
    { <<r, c>> : r \in row..(MaxRowIndex(self, other, row) - 1),
                 c \in col..(MaxColIndex(self, other, col) - 1) }

\* data[r][c], zero-based, is inside the grid.
InGrid(data, r, c) == (r + 1) \in DOMAIN data /\ (c + 1) \in DOMAIN data[r + 1]

\* The anchor check looking at the column only.
AnchorOutsideColOnly(self, col, row) == self.width <= col

AnchorOutside(self, col, row) == self.width <= col \/ self.height <= row

Layer(self, other, col, row) ==
    IF AnchorOutside(self, col, row) THEN Err(111)
    ELSE LET stamp == Clone(self)
             vis   == Visited(self, other, col, row)
         IN  IF \E p \in vis : \/ ~InGrid(stamp.data, p[1], p[2])
                               \/ ~InGrid(other.data, p[1] - row, p[2] - col)
             THEN Panic(121)
             ELSE Ok([stamp EXCEPT !.data =
                        [r \in DOMAIN stamp.data |->
                           [c \in DOMAIN stamp.data[r] |->
                              IF <<r - 1, c - 1>> \in vis
                              THEN Clone(other.data[r - row][c - col])
                              ELSE stamp.data[r][c]]]])

\* layer writing the overlay into self itself instead of into a clone.
LayerCallInPlace(self, other, col, row) ==
    LET r == Layer(self, other, col, row)
    IN  [res |-> r, self |-> IF r.kind = "Ok" THEN r.val ELSE self, other |-> other]

\* What a call self.layer(other, col, row) leaves behind: its result, and the
\* two stamps it borrowed (&self, &other), which it only reads.
LayerCall(self, other, col, row) ==
    [res |-> Layer(self, other, col, row), self |-> self, other |-> other]

(***************************************************************************)
(* A caller of the crate.  `input` is the text it was given; `call` is the *)
(* call it made last (operation, arguments, result) and `prev` the one     *)
(* before; `base` and `over` are the two Stamp values it holds, each <<>>  *)
(* until bound.                                                            *)
(***************************************************************************)

NoCall == [op |-> "none"]

ReturnsStamp(c) ==
    c.op \in {"from_rectangle", "new", "layer", "clone"} /\ c.res.kind = "Ok"

Init ==
    /\ input \in Texts \cup BaseTexts
    /\ call = NoCall
    /\ prev = NoCall
    /\ base = <<>>
    /\ over = <<>>

\* Stamp::from_rectangle(input)
CallFromRectangle ==
    /\ base = <<>>
    /\ prev.op = "none"
    /\ call.op \in {"none", "from_rectangle", "new", "to_rectangle"}
    /\ call' = [op |-> "from_rectangle", s |-> input, res |-> FromRectangle(input)]
    /\ prev' = call
    /\ UNCHANGED <<input, base, over>>

\* Stamp::new(input)
CallNew ==
    /\ base = <<>>
    /\ prev.op = "none"
    /\ call.op \in {"none", "from_rectangle", "new", "to_rectangle"}
    /\ call' = [op |-> "new", s |-> input, res |-> StampNew(input)]
    /\ prev' = call
    /\ UNCHANGED <<input, base, over>>

\* to_rectangle(input)
CallToRectangle ==
    /\ base = <<>>
    /\ prev.op = "none"
    /\ call.op \in {"none", "from_rectangle", "new", "to_rectangle"}
    /\ call' = [op |-> "to_rectangle", s |-> input, res |-> ToRectangle(input)]
    /\ prev' = call
    /\ UNCHANGED <<input, base, over>>

\* render() of the stamp the last call returned
CallRender ==
    /\ ReturnsStamp(call)
    /\ call' = [op |-> "render", self |-> call.res.val,
                res |-> Ok(Render(call.res.val))]
    /\ prev' = call
    /\ UNCHANGED <<input, base, over>>

\* let base = <the stamp the last call returned>.  The constructors are
\* called on every text of Texts; the caller goes on to compose the stamps
\* built from BaseTexts, and any stamp that layer or clone returned.
BindBase ==
    /\ ReturnsStamp(call)
    /\ \/ base = <<>> /\ call.op \in {"from_rectangle", "new"} /\ input \in BaseTexts
       \/ base # <<>> /\ call.op \in {"layer", "clone"}
    /\ base' = <<call.res.val>>
    /\ call' = NoCall
    /\ prev' = NoCall
    /\ UNCHANGED <<input, over>>

\* let over = Stamp::new(t)
BindOverlay(t) ==
    /\ base # <<>>
    /\ over = <<>>
    /\ call.op = "none"
    /\ LET r == StampNew(t)
       IN  /\ r.kind = "Ok"
           /\ over' = <<r.val>>
           /\ call' = [op |-> "new", s |-> t, res |-> r]
    /\ prev' = NoCall
    /\ UNCHANGED <<input, base>>

\* self.layer(other, col, row), self and other each one of base and over
CallLayer(selfIsBase, otherIsBase, col, row) ==
    /\ base # <<>>
    /\ over # <<>>
    /\ LET self  == IF selfIsBase THEN base[1] ELSE over[1]
           other == IF otherIsBase THEN base[1] ELSE over[1]
           r     == LayerCall(self, other, col, row)
       IN  /\ call' = [op |-> "layer", self |-> self, other |-> other,
                       col |-> col, row |-> row, res |-> r.res]
           /\ base' = IF selfIsBase THEN <<r.self>>
                      ELSE IF otherIsBase THEN <<r.other>> ELSE base
           /\ over' = IF ~selfIsBase THEN <<r.self>>
                      ELSE IF ~otherIsBase THEN <<r.other>> ELSE over
    /\ prev' = NoCall
    /\ UNCHANGED input

\* base.clone()
CallClone ==
    /\ base # <<>>
    /\ call.op # "clone"
    /\ call' = [op |-> "clone", self |-> base[1], res |-> Ok(Clone(base[1]))]
    /\ prev' = NoCall
    /\ UNCHANGED <<input, base, over>>

Next ==
    \/ CallFromRectangle
    \/ CallNew
    \/ CallToRectangle
    \/ CallRender
    \/ BindBase
    \/ \E t \in OverlayTexts : BindOverlay(t)
    \/ \E sb \in BOOLEAN, ob \in BOOLEAN, col \in 0..MaxCoord, row \in 0..MaxCoord :
          CallLayer(sb, ob, col, row)
    \/ CallClone

Spec == Init /\ [][Next]_vars

(***************************************************************************)
(* Vocabulary of the claims.                                               *)
(***************************************************************************)

Range(f) == {f[i] : i \in DOMAIN f}

Spaces(n) == [k \in 1..n |-> " "]

LineWidths(s) == {Width(Split(s)[i]) : i \in DOMAIN Split(s)}

\* The grapheme clusters of all the lines of s.
ClustersOf(s) ==
    UNION {Range(Graphemes(Split(s)[i])) : i \in DOMAIN Split(s)}

AllClustersWidthOne(s) == \A g \in ClustersOf(s) : Width(g) = 1

\* A valid rectangle: non-empty, first row at least one column wide, rows of
\* equal display width, every grapheme cluster of display width 1.
ValidRectangle(s) ==
    /\ s # <<>>
    /\ Width(Split(s)[1]) >= 1
    /\ \A w \in LineWidths(s) : w = Width(Split(s)[1])
    /\ AllClustersWidthOne(s)

Failed(c) == c.op # "none" /\ c.res.kind # "Ok"

\* The stamps the caller holds or has just been handed.
StampsInState ==
    Range(base) \cup Range(over)
        \cup (IF ReturnsStamp(call) THEN {call.res.val} ELSE {})
        \cup (IF ReturnsStamp(prev) THEN {prev.res.val} ELSE {})

WellShaped(st) ==
    /\ st.height >= 1
    /\ st.width >= 1
    /\ Len(st.data) = st.height
    /\ \A i \in DOMAIN st.data : Len(st.data[i]) = st.width

(***************************************************************************)
(* C1  Round trip: for every valid rectangle s, from_rectangle(s) and      *)
(* new(s) succeed, and render() of the stamp they return is s itself.      *)
(***************************************************************************)
C1_RoundTrip ==
    /\ (call.op \in {"from_rectangle", "new"} /\ ValidRectangle(call.s))
          => call.res.kind = "Ok"
    /\ (/\ call.op = "render"
        /\ prev.op \in {"from_rectangle", "new"}
        /\ ValidRectangle(prev.s))
          => call.res = Ok(prev.s)

C1_Witness ==
    /\ call.op = "render"
    /\ prev.op = "new"
    /\ prev.s = <<"a", "~", NL, "P">>
    /\ call.res = Ok(prev.s)

(***************************************************************************)
(* C2  from_rectangle(s) returns an error exactly when the first row has   *)
(* display width 0, or some row's width differs from the first row's, or   *)
(* some grapheme cluster has a width other than 1; otherwise it returns a  *)
(* stamp, and an error carries no stamp.                                   *)
(***************************************************************************)
C2_Rejected(s) ==
    \/ Width(Split(s)[1]) = 0
    \/ \E w \in LineWidths(s) : w # Width(Split(s)[1])
    \/ ~AllClustersWidthOne(s)

C2_FromRectangleErrorIff ==
    call.op = "from_rectangle" =>
        /\ call.res.kind \in {"Ok", "Err"}
        /\ call.res.kind = "Err" <=> C2_Rejected(call.s)
        /\ call.res.kind = "Err" => "val" \notin DOMAIN call.res
        /\ call.res.kind = "Ok" => WellShaped(call.res.val)

C2_Witness ==
    /\ call.op = "from_rectangle"
    /\ call.s = <<"a", NL, NL, "a">>
    /\ call.res.kind = "Err"
    /\ prev.op = "new"
    /\ prev.res.kind = "Ok"

(***************************************************************************)
(* C3  Grid shape: every stamp returned by new, from_rectangle, clone or   *)
(* layer has height >= 1, width >= 1, exactly height rows and exactly      *)
(* width cells in every row.                                               *)
(***************************************************************************)
C3_GridShape == \A st \in StampsInState : WellShaped(st)

C3_Witness ==
    /\ call.op = "layer"
    /\ call.res.kind = "Ok"
    /\ call.res.val # call.self
    /\ <<"x">> \in Range(call.self.data[1])
    /\ <<" ">> \in Range(call.self.data[1])
    /\ call.other.height > call.self.height

(***************************************************************************)
(* C4  Cell width: every cell of every stamp is a single grapheme cluster  *)
(* of display width 1; a text with a cluster of width 0 or >= 2 yields no  *)
(* stamp, also when its rows have equal display widths.                    *)
(***************************************************************************)
C4_CellWidth ==
    /\ \A st \in StampsInState : \A i \in DOMAIN st.data : \A k \in DOMAIN st.data[i] :
          /\ Len(Graphemes(st.data[i][k])) = 1
          /\ Width(st.data[i][k]) = 1
    /\ (call.op = "from_rectangle" /\ ~AllClustersWidthOne(call.s))
          => call.res.kind = "Err"

C4_Witness ==
    /\ call.op = "layer"
    /\ call.res.kind = "Ok"
    /\ <<"a", "~">> \in Range(call.res.val.data[1])
    /\ <<"x">> \in Range(call.res.val.data[1])

(***************************************************************************)
(* C5  layer fails exactly when col >= width or row >= height of the base; *)
(* for every other anchor and every overlay it returns a stamp, and no     *)
(* cell access of the copy loop is out of range.                           *)
(***************************************************************************)
C5_LayerErrorIff ==
    call.op = "layer" =>
        /\ call.res.kind # "Panic"
        /\ call.res.kind = "Err" <=>
              (call.col >= call.self.width \/ call.row >= call.self.height)
        /\ call.res.kind = "Ok" =>
              \A p \in Visited(call.self, call.other, call.col, call.row) :
                 /\ InGrid(call.self.data, p[1], p[2])
                 /\ InGrid(call.other.data, p[1] - call.row, p[2] - call.col)

C5_Witness ==
    /\ call.op = "layer"
    /\ call.res.kind = "Ok"
    /\ call.col >= 1
    /\ call.col + call.other.width > call.self.width
    /\ call.other.height > call.self.height

(***************************************************************************)
(* C6  Clipped overwrite: a successful layer returns a stamp of the base's *)
(* height and width whose cell (r, c) is the overlay's cell                *)
(* (r - row, c - col) inside the overlay's rectangle and the base's cell   *)
(* (r, c) outside it.                                                      *)
(***************************************************************************)
C6_ClippedOverwrite ==
    (call.op = "layer" /\ call.res.kind = "Ok") =>
        LET out == call.res.val
        IN  /\ out.height = call.self.height
            /\ out.width = call.self.width
            /\ Len(out.data) = call.self.height
            /\ \A r \in 0..(call.self.height - 1) :
                 /\ Len(out.data[r + 1]) = call.self.width
                 /\ \A c \in 0..(call.self.width - 1) :
                      out.data[r + 1][c + 1] =
                         IF /\ call.row <= r
                            /\ r < call.row + call.other.height
                            /\ call.col <= c
                            /\ c < call.col + call.other.width
                         THEN call.other.data[r - call.row + 1][c - call.col + 1]
                         ELSE call.self.data[r + 1][c + 1]

C6_Witness ==
    /\ call.op = "layer"
    /\ call.res.kind = "Ok"
    /\ call.row = 1
    /\ call.col = 1
    /\ call.col + call.other.width > call.self.width
    /\ call.row + call.other.height > call.self.height
    /\ call.res.val.data[2][2] = <<"x">>
    /\ call.res.val.data[1][1] = <<"a">>

(***************************************************************************)
(* C7  Non-mutation: a layer call, successful or not, leaves the base and  *)
(* the overlay as they were (grids, heights, widths, render output), also  *)
(* when the stamp it is applied to is the result of an earlier layer.      *)
(***************************************************************************)
C7_NonMutation ==
    [][call'.op = "layer" =>
          /\ base' = base
          /\ over' = over
          /\ \A i \in DOMAIN base : Render(base'[i]) = Render(base[i])
          /\ \A i \in DOMAIN over : Render(over'[i]) = Render(over[i])]_vars

C7_Witness ==
    /\ call.op = "layer"
    /\ call.res.kind = "Ok"
    /\ call.res.val # call.self
    /\ base = <<call.self>>
    /\ over = <<call.other>>
    /\ <<"x">> \in Range(call.self.data[1])

(***************************************************************************)
(* C8  Padding: to_rectangle("") is an error; for every other text it      *)
(* returns the lines of the text, in order, each followed by exactly       *)
(* M - w spaces, M the largest line width and w the line's own.            *)
(***************************************************************************)
C8_Padding ==
    call.op = "to_rectangle" =>
        IF call.s = <<>> THEN call.res.kind = "Err"
        ELSE /\ call.res.kind = "Ok"
             /\ LET lines == Split(call.s)
                    out   == Split(call.res.val)
                    M     == Max(LineWidths(call.s))
                IN  /\ Len(out) = Len(lines)
                    /\ \A i \in DOMAIN lines :
                         /\ out[i] = lines[i] \o Spaces(M - Width(lines[i]))
                         /\ Width(out[i]) = M

C8_Witness ==
    /\ call.op = "to_rectangle"
    /\ call.s = <<NL, "a", "~", "a">>
    /\ call.res = Ok(<<" ", " ", NL, "a", "~", "a">>)

IsUnitErr(r) == r.kind = "Err" /\ r.err = Unit

C10_NewErrorIff ==
    call.op = "new" =>
        /\ call.res.kind = "Err" <=>
              \/ call.s = <<>>
              \/ \A w \in LineWidths(call.s) : w = 0
              \/ ~AllClustersWidthOne(call.s)
        /\ call.res.kind = "Ok" =>
              /\ call.res.val.height = Len(Split(call.s))
              /\ call.res.val.width = Max(LineWidths(call.s))

(***************************************************************************)
(* C10, amended: new(s) fails exactly when s is empty, or every line of s  *)
(* has width 0, or some grapheme cluster of a line of s as padded with     *)
(* spaces to the largest line width has a width other than 1; it never     *)
(* fails on a row-width mismatch, and a stamp it returns has one row per   *)
(* line of s and the largest line width of s.                              *)
(***************************************************************************)
PaddedLines(s) ==
    [i \in DOMAIN Split(s) |->
        Split(s)[i] \o Spaces(Max(LineWidths(s)) - Width(Split(s)[i]))]

C10_NewErrorIffPadded ==
    call.op = "new" =>
        /\ call.res.kind \in {"Ok", "Err"}
        /\ call.res.kind = "Err" <=>
              \/ call.s = <<>>
              \/ \A w \in LineWidths(call.s) : w = 0
              \/ \E i \in DOMAIN Split(call.s) :
                    \E g \in Range(Graphemes(PaddedLines(call.s)[i])) : Width(g) # 1
        /\ call.res.kind = "Err" => call.res.line # 61
        /\ call.res.kind = "Ok" =>
              /\ call.res.val.height = Len(Split(call.s))
              /\ call.res.val.width = Max(LineWidths(call.s))

C10_Witness ==
    /\ call.op = "new"
    /\ call.s = <<"a", "a", NL, "P">>
    /\ AllClustersWidthOne(call.s)
    /\ call.res.kind = "Err"
    /\ call.res.line = 70

====
